---- MODULE Spec2Model ----
(***************************************************************************)
(* The request pipeline of cubes/server/flask_slicer.py: configuration of  *)
(* the application store, the before_request chain, the route handlers and *)
(* the rendering of their results.                                         *)
(*                                                                         *)
(* Conventions.  A text is a sequence of lexemes (a delimiter is one       *)
(* lexeme, a delimiter-free run of characters is one lexeme).  A Python    *)
(* optional value is <<>> (None) or <<v>>.  The request context g and the  *)
(* store slicer are functions whose DOMAIN holds the attributes that have  *)
(* been assigned so far.                                                   *)
(***************************************************************************)
EXTENDS Integers, Sequences, FiniteSets, TLC

VARIABLES
    pc,         \* position of the process: boot, idle, a chain step, handler, done
    config,     \* the [server] section of slicer.ini (options present -> value)
    workspace,  \* the external workspace: its cubes and its optional authorizer
    slicer,     \* current_app.slicer, the process-wide _Configuration
    request,    \* the request being served
    engine,     \* what the external workspace/browser answers for this request
    g,          \* flask.g, the request context
    steps,      \* the preparation steps and handler stages run for this request
    calls,      \* the calls made to external collaborators for this request
    response,   \* <<>> or <<the response of this request>>
    threads     \* the worker threads that serve /cubes requests side by side

vars == <<pc, config, workspace, slicer, request, engine, g, steps, calls, response, threads>>

(***************************************************************************)
(* Bounds of the model.                                                    *)
(***************************************************************************)
MaxOcc == 2        \* occurrences of one query parameter
MaxLen == 3        \* lexemes over all occurrences of one query parameter
MaxLabels == 2     \* columns of an aggregation result
MaxRows == 2       \* rows of an aggregation result
NumThreads == 2    \* worker threads serving /cubes requests at the same time

(***************************************************************************)
(* Python values and helpers.                                              *)
(***************************************************************************)
None == <<>>

Some(v) == <<v>>

NoAttrs == [x \in {} |-> None]

SetAttr(obj, attr, value) ==
    [x \in (DOMAIN obj) \cup {attr} |-> IF x = attr THEN value ELSE obj[x]]

HasAttr(obj, attr) == attr \in DOMAIN obj

Min(a, b) == IF a <= b THEN a ELSE b

Strs(A, n) == UNION {[1..k -> A] : k \in 0..n}

RECURSIVE OccLists(_, _, _)
OccLists(A, k, n) ==
    IF k = 0 THEN {<<>>}
    ELSE {<<>>} \cup
         UNION {{<<s>> \o o : o \in OccLists(A, k - 1, n - Len(s))} : s \in Strs(A, n)}

\* str.split(sep): the delimiter-free pieces of s, empty pieces included.
Split(s, sep) ==
    LET RECURSIVE go(_, _, _)
        go(i, cur, acc) ==
            IF i > Len(s) THEN Append(acc, cur)
            ELSE IF s[i] = sep THEN go(i + 1, <<>>, Append(acc, cur))
            ELSE go(i + 1, Append(cur, s[i]), acc)
    IN go(1, <<>>, <<>>)

\* int(text) of Python 2 on a text of sign and digit characters.
DigitVal == [c \in {"0", "1", "3"} |-> IF c = "0" THEN 0 ELSE IF c = "1" THEN 1 ELSE 3]

RECURSIVE Decimal(_)
Decimal(t) == IF t = <<>> THEN 0 ELSE 10 * Decimal(SubSeq(t, 1, Len(t) - 1)) + DigitVal[t[Len(t)]]

PyInt(s) ==
    LET neg == Len(s) >= 1 /\ s[1] = "-"
        body == IF neg THEN Tail(s) ELSE s
        ok == Len(body) >= 1 /\ \A i \in 1..Len(body) : body[i] \in DOMAIN DigitVal
    IN [ok |-> ok, value |-> IF ~ok THEN 0 ELSE IF neg THEN 0 - Decimal(body) ELSE Decimal(body)]

(***************************************************************************)
(* The environment: configuration files, workspaces, requests and what the *)
(* external engine answers.                                                *)
(***************************************************************************)
Configs ==
    { NoAttrs,
      [prettyprint |-> TRUE, json_record_limit |-> 1, authorization_method |-> "http_basic"],
      [authorization_method |-> "digest"] }

\* The pairs (token, cube) the configured authorizer rejects with NotAuthorized.
Denied == {<<None, "sales">>, <<Some("bob"), "sales">>}

Workspaces ==
    { [cubes |-> <<"sales">>, authorizer |-> None],
      [cubes |-> <<"sales">>, authorizer |-> Some(Denied)] }

Params ==
    {"cut", "split", "page", "pagesize", "order", "aggregates", "drilldown",
     "format", "header", "prettyprint"}

BaseArgs == [p \in Params |-> <<>>]

PlainRoutes == {"index", "version", "info", "cubes"}

CubeRoutes == {"model", "aggregate"}

SPLIT_DIMENSION_NAME == "__within_split__"

\* The attributes of the cube (name -> label) that cube.get_attributes looks up.
CubeAttributes == [a \in {"amount", "year", "month"} |->
                      IF a = "amount" THEN Some("Amount") ELSE IF a = "month" THEN Some("") ELSE None]

ResultLabels ==
    UNION {[1..k -> (DOMAIN CubeAttributes) \cup {SPLIT_DIMENSION_NAME}] : k \in 1..MaxLabels}

Result(labels, n) == [labels |-> labels, rows |-> [i \in 1..n |-> i]]

DefaultEngine == [browser_ok |-> TRUE, aggregate_ok |-> TRUE, result |-> Result(<<"amount">>, 1)]

Req(route, cube_name, args, authorization) ==
    [route |-> route, cube_name |-> cube_name, args |-> args, authorization |-> authorization]

NoRequest == Req("", None, BaseArgs, None)

Scenario(req, eng) == [request |-> req, engine |-> eng]

\* HTTP Basic credentials of a request.
Credentials(username) == [username |-> username, password |-> "secret"]

AggregateOn(args) ==
    Scenario(Req("aggregate", Some("sales"), args, Some(Credentials("alice"))), DefaultEngine)

PageLiterals ==
    {<<"3">>, <<"1", "0">>, <<"-", "1">>, <<"0">>, <<"a">>, <<"3", "a">>, <<>>, <<"-">>}

RouteScenarios ==
    { Scenario(Req(r, c, [BaseArgs EXCEPT !["prettyprint"] = pp], a),
               [DefaultEngine EXCEPT !.browser_ok = b, !.aggregate_ok = ok]) :
        r \in PlainRoutes \cup CubeRoutes,
        c \in {None, Some("sales"), Some("nocube")},
        a \in {None, Some(Credentials("alice")), Some(Credentials("bob"))},
        pp \in {<<>>, <<<<"true">>>>, <<<<"false">>>>},
        b \in BOOLEAN, ok \in BOOLEAN }

ListScenarios ==
    { AggregateOn([BaseArgs EXCEPT ![p] = o]) :
        p \in {"cut", "split", "drilldown"}, o \in OccLists({"a", "|"}, MaxOcc, MaxLen) }
    \cup
    { AggregateOn([BaseArgs EXCEPT !["aggregates"] = o]) :
        o \in OccLists({"a", "b", "|"}, MaxOcc, MaxLen) }

OrderScenarios ==
    { AggregateOn([BaseArgs EXCEPT !["order"] = o]) :
        o \in OccLists({"x", ":", ","}, MaxOcc, MaxLen) }

PagingScenarios ==
    { AggregateOn([BaseArgs EXCEPT !["page"] = p, !["pagesize"] = ps]) :
        p \in {<<>>} \cup {<<l>> : l \in PageLiterals},
        ps \in {<<>>} \cup {<<l>> : l \in PageLiterals} }

RenderScenarios ==
    { Scenario(Req("aggregate", Some("sales"),
                   [BaseArgs EXCEPT !["format"] = <<<<"csv">>>>, !["header"] = h], None),
               [DefaultEngine EXCEPT !.result = Result(l, 1)]) :
        h \in {<<>>} \cup {<<<<x>>>> : x \in {"names", "labels", "none", "bogus"}},
        l \in ResultLabels }
    \cup
    { Scenario(Req("aggregate", Some("sales"),
                   [BaseArgs EXCEPT !["format"] = f, !["header"] = h, !["prettyprint"] = pp], None),
               [DefaultEngine EXCEPT !.result = Result(<<"amount">>, n)]) :
        f \in {<<>>} \cup {<<<<x>>>> : x \in {"json", "xml"}},
        h \in {<<>>, <<<<"bogus">>>>},
        pp \in {<<>>, <<<<"true">>>>},
        n \in 0..MaxRows }

\* A route with a <cube_name> segment always carries a name; the others never do.
WellFormed(sc) == (sc.request.route \in CubeRoutes) <=> (sc.request.cube_name # None)

Scenarios ==
    { sc \in RouteScenarios : WellFormed(sc) /\ (sc.request.route = "aggregate" \/ sc.engine.aggregate_ok) }
    \cup ListScenarios \cup OrderScenarios \cup PagingScenarios \cup RenderScenarios

(***************************************************************************)
(* Configuration of the store at blueprint registration.                   *)
(***************************************************************************)
DefaultJsonRecordLimit == 1000

\* Seeded fault: the option is stored before the allowed values are checked.
configure_option_store_first(store, cfg, option, default, allowed) ==
    LET value == IF option \in DOMAIN cfg THEN cfg[option] ELSE default
    IN [ok |-> ~(allowed # {} /\ value \notin allowed), store |-> SetAttr(store, option, value)]

\* _configure_option: getboolean/getint/get are the typed reads of `config`.
configure_option(store, cfg, option, default, allowed) ==
    LET value == IF option \in DOMAIN cfg THEN cfg[option] ELSE default
    IN IF allowed # {} /\ value \notin allowed
       THEN [ok |-> FALSE, store |-> store]
       ELSE [ok |-> TRUE, store |-> SetAttr(store, option, value)]

initialize_slicer ==
    /\ pc = "boot"
    /\ LET s1 == configure_option(NoAttrs, config, "prettyprint", FALSE, {})
           s2 == configure_option(s1.store, config, "json_record_limit", DefaultJsonRecordLimit, {})
           s3 == configure_option(s2.store, config, "authorization_method", "http_basic", {"http_basic"})
       IN /\ slicer' = s3.store
          /\ pc' = IF s3.ok THEN "idle" ELSE "ConfigurationError"
    /\ UNCHANGED <<threads, config, workspace, request, engine, g, steps, calls, response>>

(***************************************************************************)
(* The request: receipt, the before_request chain, the handlers, teardown. *)
(***************************************************************************)

\* Seeded fault: prepare_authorization registered before before_request.
StepOrder_auth_first == <<"cube", "browser", "cell", "paging", "order", "authorization", "options">>

\* The before_request functions run in the order the blueprint registered
\* them: prepare_browser_request (its five steps), before_request,
\* prepare_authorization.
StepOrder == <<"cube", "browser", "cell", "paging", "order", "options", "authorization">>

NextPc(step) ==
    LET i == CHOOSE j \in 1..Len(StepOrder) : StepOrder[j] = step
    IN IF i = Len(StepOrder) THEN "handler" ELSE StepOrder[i + 1]

NoResponse ==
    [kind |-> "", error |-> "", names |-> "", at |-> "", mimetype |-> "",
     indent |-> None, limit |-> None, obj |-> None, data |-> <<>>,
     header |-> None, include_header |-> FALSE, fields |-> <<>>]

ErrorResponse(step, err, names) ==
    [NoResponse EXCEPT !.kind = "error", !.error = err, !.names = names, !.at = step]

\* Seeded fault: the error of a preparation step is recorded but the chain goes on.
Raise_and_go_on(step, err, names) ==
    /\ response' = Some(ErrorResponse(step, err, names))
    /\ pc' = IF \E j \in 1..Len(StepOrder) : StepOrder[j] = step THEN NextPc(step) ELSE "done"

\* An exception leaving a before_request function or a handler: the rest of
\* the chain and the handler are skipped and the error is rendered.
Raise(step, err, names) ==
    /\ response' = Some(ErrorResponse(step, err, names))
    /\ pc' = "done"

Proceed(step) ==
    /\ response' = response
    /\ pc' = NextPc(step)

receive_request ==
    /\ pc = "idle"
    /\ \E sc \in Scenarios :
          /\ request' = sc.request
          /\ engine' = sc.engine
    /\ g' = NoAttrs
    /\ steps' = <<>>
    /\ calls' = <<>>
    /\ response' = None
    /\ pc' = StepOrder[1]
    /\ UNCHANGED <<threads, config, workspace, slicer>>

Call(op, arg) == [op |-> op, arg |-> arg]

KnownCube(name) == \E i \in 1..Len(workspace.cubes) : workspace.cubes[i] = name

\* prepare_browser_request, cube resolution.
resolve_cube ==
    /\ pc = "cube"
    /\ steps' = Append(steps, "cube")
    /\ IF request.cube_name # None
       THEN /\ calls' = Append(calls, Call("workspace.cube", request.cube_name))
            /\ IF KnownCube(request.cube_name[1])
               THEN g' = SetAttr(g, "cube", request.cube_name) /\ Proceed("cube")
               ELSE g' = g /\ Raise("cube", "NoSuchCubeError", "")
       ELSE /\ calls' = calls
            /\ g' = SetAttr(g, "cube", None)
            /\ Proceed("cube")
    /\ UNCHANGED <<threads, config, workspace, slicer, request, engine>>

\* prepare_browser_request, browser resolution.
resolve_browser ==
    /\ pc = "browser"
    /\ steps' = Append(steps, "browser")
    /\ calls' = Append(calls, Call("workspace.browser", g["cube"]))
    /\ IF engine.browser_ok
       THEN g' = SetAttr(g, "browser", [cube |-> g["cube"]]) /\ Proceed("browser")
       ELSE g' = g /\ Raise("browser", "WorkspaceError", "")
    /\ UNCHANGED <<threads, config, workspace, slicer, request, engine>>

\* cuts_from_string of cubes.browser: no text gives no cut; otherwise one cut
\* per "|"-separated piece, and an empty piece is a syntax error.
cuts_from_string(text) ==
    LET pieces == Split(text, "|")
    IN IF text = <<>> THEN [ok |-> TRUE, cuts |-> <<>>]
       ELSE IF \E i \in 1..Len(pieces) : pieces[i] = <<>> THEN [ok |-> FALSE, cuts |-> <<>>]
       ELSE [ok |-> TRUE, cuts |-> [i \in 1..Len(pieces) |-> [path |-> pieces[i]]]]

\* The loop of prepare_cell: cuts += cuts_from_string(cut_string).
collect_cuts(occurrences) ==
    LET RECURSIVE loop(_, _)
        loop(i, cuts) ==
            IF i > Len(occurrences) THEN [ok |-> TRUE, cuts |-> cuts]
            ELSE LET parsed == cuts_from_string(occurrences[i])
                 IN IF parsed.ok THEN loop(i + 1, cuts \o parsed.cuts)
                    ELSE [ok |-> FALSE, cuts |-> cuts]
    IN loop(1, <<>>)

Cell(cube, cuts) == [cube |-> cube, cuts |-> cuts]

\* Seeded fault: a Cell is built even when there is no cut.
prepare_cell_always(argname) ==
    LET c == collect_cuts(request.args[argname])
    IN [ok |-> c.ok, cell |-> Some(Cell(g["cube"], c.cuts))]

\* prepare_cell(argname, target): what it stores in the target slot.
prepare_cell(argname) ==
    LET c == collect_cuts(request.args[argname])
    IN [ok |-> c.ok,
        cell |-> IF c.cuts # <<>> THEN Some(Cell(g["cube"], c.cuts)) ELSE None]

\* prepare_browser_request, prepare_cell().
resolve_cell ==
    /\ pc = "cell"
    /\ steps' = Append(steps, "cell")
    /\ LET r == prepare_cell("cut")
       IN IF r.ok
          THEN g' = SetAttr(g, "cell", r.cell) /\ Proceed("cell")
          ELSE g' = g /\ Raise("cell", "RequestError", "cut")
    /\ UNCHANGED <<threads, config, workspace, slicer, request, engine, calls>>

\* Seeded fault: a pagesize that is no number is silently left absent.
paging_lenient(ctx, args) ==
    LET page == IF args["page"] # <<>> THEN PyInt(args["page"][1]) ELSE [ok |-> TRUE, value |-> 0]
        size == IF args["pagesize"] # <<>> THEN PyInt(args["pagesize"][1]) ELSE [ok |-> FALSE, value |-> 0]
        ctx1 == SetAttr(ctx, "page", IF args["page"] # <<>> THEN Some(page.value) ELSE None)
        ctx2 == SetAttr(ctx1, "page_size", IF size.ok THEN Some(size.value) ELSE None)
    IN IF ~page.ok THEN [ok |-> FALSE, names |-> "page", ctx |-> ctx]
       ELSE [ok |-> TRUE, names |-> "", ctx |-> ctx2]

\* The paging block of prepare_browser_request on context ctx.
paging(ctx, args) ==
    LET page == IF args["page"] # <<>> THEN PyInt(args["page"][1]) ELSE [ok |-> TRUE, value |-> 0]
        size == IF args["pagesize"] # <<>> THEN PyInt(args["pagesize"][1]) ELSE [ok |-> TRUE, value |-> 0]
        ctx1 == SetAttr(ctx, "page", IF args["page"] # <<>> THEN Some(page.value) ELSE None)
        ctx2 == SetAttr(ctx1, "page_size", IF args["pagesize"] # <<>> THEN Some(size.value) ELSE None)
    IN IF ~page.ok THEN [ok |-> FALSE, names |-> "page", ctx |-> ctx]
       ELSE IF ~size.ok THEN [ok |-> FALSE, names |-> "pagesize", ctx |-> ctx1]
       ELSE [ok |-> TRUE, names |-> "", ctx |-> ctx2]

resolve_paging ==
    /\ pc = "paging"
    /\ steps' = Append(steps, "paging")
    /\ LET r == paging(g, request.args)
       IN /\ g' = r.ctx
          /\ IF r.ok THEN Proceed("paging") ELSE Raise("paging", "RequestError", r.names)
    /\ UNCHANGED <<threads, config, workspace, slicer, request, engine, calls>>

\* Seeded fault: the direction is the last colon-delimited component.
order_entry_last(order) ==
    LET split == Split(order, ":")
    IN IF Len(split) = 1 THEN <<order, None>> ELSE <<split[1], Some(split[Len(split)])>>

\* One token of an order value.
order_entry(order) ==
    LET split == Split(order, ":")
    IN IF Len(split) = 1 THEN <<order, None>> ELSE <<split[1], Some(split[2])>>

\* The two loops that fill g.order.
collect_order(occurrences) ==
    LET RECURSIVE tokens(_, _, _)
        tokens(toks, j, acc) ==
            IF j > Len(toks) THEN acc ELSE tokens(toks, j + 1, Append(acc, order_entry(toks[j])))
        RECURSIVE loop(_, _)
        loop(i, acc) ==
            IF i > Len(occurrences) THEN acc
            ELSE loop(i + 1, tokens(Split(occurrences[i], ","), 1, acc))
    IN loop(1, <<>>)

resolve_order ==
    /\ pc = "order"
    /\ steps' = Append(steps, "order")
    /\ g' = SetAttr(g, "order", collect_order(request.args["order"]))
    /\ Proceed("order")
    /\ UNCHANGED <<threads, config, workspace, slicer, request, engine, calls>>

\* str_to_bool of cubes.server.common.
str_to_bool(text) == text \in {<<"true">>, <<"yes">>, <<"1">>, <<"on">>}

\* Seeded fault: the request's prettyprint override is written to the store.
before_request_sticky ==
    /\ pc = "options"
    /\ steps' = Append(steps, "options")
    /\ LET pretty == IF request.args["prettyprint"] # <<>>
                     THEN str_to_bool(request.args["prettyprint"][1])
                     ELSE slicer["prettyprint"]
       IN /\ slicer' = SetAttr(slicer, "prettyprint", pretty)
          /\ g' = SetAttr(SetAttr(g, "json_record_limit", slicer["json_record_limit"]),
                          "prettyprint", pretty)
    /\ Proceed("options")
    /\ UNCHANGED <<threads, config, workspace, request, engine, calls>>

\* The second before_request function: option projection.
before_request ==
    /\ pc = "options"
    /\ steps' = Append(steps, "options")
    /\ g' = SetAttr(SetAttr(g, "json_record_limit", slicer["json_record_limit"]),
                    "prettyprint",
                    IF request.args["prettyprint"] # <<>>
                    THEN str_to_bool(request.args["prettyprint"][1])
                    ELSE slicer["prettyprint"])
    /\ Proceed("options")
    /\ UNCHANGED <<threads, config, workspace, slicer, request, engine, calls>>

\* Seeded fault: the token is also kept on the process-wide store.
prepare_authorization_global ==
    /\ pc = "authorization"
    /\ steps' = Append(steps, "authorization")
    /\ LET token == IF request.authorization # None
                    THEN Some(request.authorization[1].username) ELSE None
       IN /\ g' = SetAttr(g, "authorization_token", token)
          /\ slicer' = SetAttr(slicer, "authorization_token", token)
    /\ Proceed("authorization")
    /\ UNCHANGED <<threads, config, workspace, request, engine, calls>>

\* The third before_request function.  The message of the InternalError reads
\* slicer.auth_method, an option that is never configured.
prepare_authorization ==
    /\ pc = "authorization"
    /\ steps' = Append(steps, "authorization")
    /\ IF slicer["authorization_method"] = "http_basic"
       THEN /\ g' = SetAttr(g, "authorization_token",
                             IF request.authorization # None
                             THEN Some(request.authorization[1].username) ELSE None)
            /\ Proceed("authorization")
       ELSE /\ g' = SetAttr(g, "authorization_token", None)
            /\ Raise("authorization",
                     IF HasAttr(slicer, "auth_method") THEN "InternalError" ELSE "AttributeError",
                     "")
    /\ UNCHANGED <<threads, config, workspace, slicer, request, engine, calls>>

(***************************************************************************)
(* Rendering.                                                              *)
(***************************************************************************)
SeqObj(items) == [type |-> "seq", items |-> items]

MapObj(items) == [type |-> "map", items |-> items]

\* SlicerJSONEncoder.iterencode: a top-level sequence is cut at iterator_limit.
iterencode(obj, iterator_limit) ==
    IF obj.type = "seq"
    THEN SubSeq(obj.items, 1, Min(Len(obj.items), iterator_limit))
    ELSE obj.items

\* Seeded fault: the encoder keeps its own default limit.
jsonify_default_limit(obj) ==
    LET indent == IF g["prettyprint"] THEN Some(4) ELSE None
        iterator_limit == DefaultJsonRecordLimit
    IN [NoResponse EXCEPT !.kind = "json", !.mimetype = "application/json",
                          !.indent = indent, !.limit = Some(iterator_limit),
                          !.obj = Some(obj), !.data = iterencode(obj, iterator_limit)]


jsonify(obj) ==
    LET indent == IF g["prettyprint"] THEN Some(4) ELSE None
        iterator_limit == g["json_record_limit"]
    IN [NoResponse EXCEPT !.kind = "json", !.mimetype = "application/json",
                          !.indent = indent, !.limit = Some(iterator_limit),
                          !.obj = Some(obj), !.data = iterencode(obj, iterator_limit)]

Respond(stages, resp) ==
    /\ steps' = steps \o <<"handler">> \o stages
    /\ response' = Some(resp)
    /\ pc' = "done"

\* Seeded fault: without an authorizer only identified callers are let in.
authorize_cube_no_anonymous(cube) ==
    IF workspace.authorizer = None
    THEN [ok |-> g["authorization_token"] # None, calls |-> <<>>]
    ELSE [ok |-> <<g["authorization_token"], cube>> \notin workspace.authorizer[1],
          calls |-> <<Call("authorizer.authorize", <<g["authorization_token"], cube>>)>>]

\* authorize_cube: the authorizer call it makes, and whether it returns.
authorize_cube(cube) ==
    IF workspace.authorizer = None
    THEN [ok |-> TRUE, calls |-> <<>>]
    ELSE [ok |-> <<g["authorization_token"], cube>> \notin workspace.authorizer[1],
          calls |-> <<Call("authorizer.authorize", <<g["authorization_token"], cube>>)>>]

show_index ==
    /\ pc = "handler" /\ request.route = "index"
    /\ Respond(<<>>, [NoResponse EXCEPT !.kind = "text", !.mimetype = "text/html", !.data = <<"Cubes">>])
    /\ UNCHANGED <<threads, config, workspace, slicer, request, engine, g, calls>>

show_version ==
    /\ pc = "handler" /\ request.route = "version"
    /\ Respond(<<>>, jsonify(MapObj(<<"version", "server_version", "api_version">>)))
    /\ UNCHANGED <<threads, config, workspace, slicer, request, engine, g, calls>>

show_info ==
    /\ pc = "handler" /\ request.route = "info"
    /\ Respond(<<>>, jsonify(MapObj(<<"authorization_method", "version">>)))
    /\ UNCHANGED <<threads, config, workspace, slicer, request, engine, g, calls>>

list_cubes ==
    /\ pc = "handler" /\ request.route = "cubes"
    /\ IF HasAttr(slicer, "cached_cube_list")
       THEN /\ Respond(<<>>, jsonify(SeqObj(slicer["cached_cube_list"])))
            /\ UNCHANGED <<slicer, calls>>
       ELSE /\ calls' = Append(calls, Call("workspace.list_cubes", None))
            /\ slicer' = SetAttr(slicer, "cached_cube_list", workspace.cubes)
            /\ Respond(<<>>, jsonify(SeqObj(workspace.cubes)))
    /\ UNCHANGED <<threads, config, workspace, request, engine, g>>

cube_model ==
    /\ pc = "handler" /\ request.route = "model"
    /\ LET cube == request.cube_name[1]
           auth == authorize_cube(cube)
           lookup == <<Call("workspace.cube", request.cube_name)>> \o auth.calls
       IN IF ~auth.ok
          THEN /\ calls' = calls \o lookup
               /\ steps' = steps \o <<"handler", "authorize">>
               /\ Raise("authorize", "NotAuthorizedError", "")
          ELSE /\ calls' = calls \o lookup
                             \o <<Call("cube.to_dict", cube), Call("workspace.cube_features", cube)>>
               /\ Respond(<<"authorize", "to_dict">>, jsonify(MapObj(<<"name", "features">>)))
    /\ UNCHANGED <<threads, config, workspace, slicer, request, engine, g>>

\* validated_parameter of cubes.server.common.
validated_parameter(args, name, values, default) ==
    LET param == IF args[name] # <<>> THEN args[name][1] ELSE default
    IN [ok |-> param \in values, value |-> param]

\* Seeded fault: the list of accepted formats is wider than the formats rendered.
FormatValues_with_xml == {<<"json">>, <<"csv">>, <<"xml">>}


FormatValues == {<<"json">>, <<"csv">>}

HeaderValues == {<<"names">>, <<"labels">>, <<"none">>}

\* Seeded fault: each occurrence replaces the list instead of extending it.
split_all_last(occurrences) ==
    IF occurrences = <<>> THEN <<>> ELSE Split(occurrences[Len(occurrences)], "|")

\* aggregates += agg.split("|") over the occurrences (and the same for drilldown).
split_all(occurrences) ==
    LET RECURSIVE loop(_, _)
        loop(i, acc) ==
            IF i > Len(occurrences) THEN acc
            ELSE loop(i + 1, acc \o Split(occurrences[i], "|"))
    IN loop(1, <<>>)

\* attr.label or attr.name, for the attribute the cube knows under `name`.
label_or_name(name) ==
    IF CubeAttributes[name] \in {None, Some("")} THEN name ELSE CubeAttributes[name][1]

\* Seeded fault: the labels policy emits attribute names, never attribute labels.
csv_header_names_only(header_type, labels) ==
    IF header_type = <<"names">> THEN Some(labels)
    ELSE IF header_type = <<"labels">>
    THEN Some([i \in 1..Len(labels) |->
                 IF labels[i] = SPLIT_DIMENSION_NAME THEN "Matches Filters" ELSE labels[i]])
    ELSE None

\* The header of the CSV path.
csv_header(header_type, labels) ==
    IF header_type = <<"names">> THEN Some(labels)
    ELSE IF header_type = <<"labels">>
    THEN Some([i \in 1..Len(labels) |->
                 IF labels[i] = SPLIT_DIMENSION_NAME THEN "Matches Filters"
                 ELSE label_or_name(labels[i])])
    ELSE None

\* bool(header) of Python: neither None nor an empty list.
Truthy(header) == header # None /\ header[1] # <<>>

csv_response(header_type, result) ==
    LET header == csv_header(header_type, result.labels)
    IN [NoResponse EXCEPT !.kind = "csv", !.mimetype = "text/csv",
                          !.header = header, !.include_header = Truthy(header),
                          !.fields = result.labels, !.data = result.rows]

\* Seeded fault: a failed aggregation is tried a second time.
aggregate_retry ==
    /\ pc = "handler" /\ request.route = "aggregate"
    /\ LET output_format == validated_parameter(request.args, "format", FormatValues, <<"json">>)
           header_type == validated_parameter(request.args, "header", HeaderValues, <<"labels">>)
           aggregates == split_all(request.args["aggregates"])
           drilldown == split_all(request.args["drilldown"])
           split == prepare_cell("split")
           query == [cell |-> g["cell"], aggregates |-> aggregates, drilldown |-> drilldown,
                     split |-> split.cell, page |-> g["page"], page_size |-> g["page_size"],
                     order |-> g["order"]]
       IN IF ~output_format.ok
          THEN /\ steps' = steps \o <<"handler", "format">>
               /\ Raise("format", "RequestError", "format")
               /\ UNCHANGED <<g, calls>>
          ELSE IF ~header_type.ok
          THEN /\ steps' = steps \o <<"handler", "format", "header">>
               /\ Raise("header", "RequestError", "header")
               /\ UNCHANGED <<g, calls>>
          ELSE IF ~split.ok
          THEN /\ steps' = steps \o <<"handler", "format", "header", "assemble", "split">>
               /\ Raise("split", "RequestError", "split")
               /\ UNCHANGED <<g, calls>>
          ELSE /\ g' = SetAttr(g, "split", split.cell)
               /\ calls' = IF engine.aggregate_ok
                           THEN Append(calls, Call("browser.aggregate", query))
                           ELSE calls \o <<Call("browser.aggregate", query),
                                           Call("browser.aggregate", query)>>
               /\ IF ~engine.aggregate_ok
                  THEN /\ steps' = steps \o <<"handler", "format", "header", "assemble",
                                              "split", "aggregate">>
                       /\ Raise("aggregate", "BrowserError", "")
                  ELSE IF output_format.value = <<"json">>
                  THEN Respond(<<"format", "header", "assemble", "split", "aggregate", "render">>,
                               jsonify(SeqObj(engine.result.rows)))
                  ELSE IF output_format.value # <<"csv">>
                  THEN /\ steps' = steps \o <<"handler", "format", "header", "assemble",
                                              "split", "aggregate", "render">>
                       /\ Raise("render", "RequestError", "format")
                  ELSE Respond(<<"format", "header", "assemble", "split", "aggregate", "render">>,
                               csv_response(header_type.value, engine.result))
    /\ UNCHANGED <<threads, config, workspace, slicer, request, engine>>


aggregate ==
    /\ pc = "handler" /\ request.route = "aggregate"
    /\ LET output_format == validated_parameter(request.args, "format", FormatValues, <<"json">>)
           header_type == validated_parameter(request.args, "header", HeaderValues, <<"labels">>)
           aggregates == split_all(request.args["aggregates"])
           drilldown == split_all(request.args["drilldown"])
           split == prepare_cell("split")
           query == [cell |-> g["cell"], aggregates |-> aggregates, drilldown |-> drilldown,
                     split |-> split.cell, page |-> g["page"], page_size |-> g["page_size"],
                     order |-> g["order"]]
       IN IF ~output_format.ok
          THEN /\ steps' = steps \o <<"handler", "format">>
               /\ Raise("format", "RequestError", "format")
               /\ UNCHANGED <<g, calls>>
          ELSE IF ~header_type.ok
          THEN /\ steps' = steps \o <<"handler", "format", "header">>
               /\ Raise("header", "RequestError", "header")
               /\ UNCHANGED <<g, calls>>
          ELSE IF ~split.ok
          THEN /\ steps' = steps \o <<"handler", "format", "header", "assemble", "split">>
               /\ Raise("split", "RequestError", "split")
               /\ UNCHANGED <<g, calls>>
          ELSE /\ g' = SetAttr(g, "split", split.cell)
               /\ calls' = Append(calls, Call("browser.aggregate", query))
               /\ IF ~engine.aggregate_ok
                  THEN /\ steps' = steps \o <<"handler", "format", "header", "assemble",
                                              "split", "aggregate">>
                       /\ Raise("aggregate", "BrowserError", "")
                  ELSE IF output_format.value = <<"json">>
                  THEN Respond(<<"format", "header", "assemble", "split", "aggregate", "render">>,
                               jsonify(SeqObj(engine.result.rows)))
                  ELSE IF output_format.value # <<"csv">>
                  THEN /\ steps' = steps \o <<"handler", "format", "header", "assemble",
                                              "split", "aggregate", "render">>
                       /\ Raise("render", "RequestError", "format")
                  ELSE Respond(<<"format", "header", "assemble", "split", "aggregate", "render">>,
                               csv_response(header_type.value, engine.result))
    /\ UNCHANGED <<threads, config, workspace, slicer, request, engine>>

\* The response is sent and the request context is torn down.
send_response ==
    /\ pc = "done"
    /\ pc' = "idle"
    /\ request' = NoRequest
    /\ engine' = DefaultEngine
    /\ g' = NoAttrs
    /\ steps' = <<>>
    /\ calls' = <<>>
    /\ response' = None
    /\ UNCHANGED <<threads, config, workspace, slicer>>

(***************************************************************************)
(* Concurrent /cubes requests.  Each worker thread runs list_cubes one     *)
(* statement at a time; the store is shared between the threads.  The      *)
(* requests carry no parameters, so every thread's context holds the same  *)
(* options and g stands for each of them.                                  *)
(***************************************************************************)
Threads == 1..NumThreads

\* The cube lists the workspace can answer with.
CubeLists == {<<"sales">>, <<"sales", "hr">>}

\* cached_at_start records whether the slot was written when the request began.
IdleThread ==
    [pc |-> "idle", cached_at_start |-> FALSE, cube_list |-> None, listed |-> 0, response |-> None]

ThreadLocal == <<pc, config, workspace, request, engine, g, steps, calls, response>>

\* A /cubes request is dispatched to thread t and passes the chain.
cubes_request(t) ==
    /\ threads[t].pc = "idle"
    /\ threads' = [threads EXCEPT ![t] = [IdleThread EXCEPT
                      !.pc = "check", !.cached_at_start = HasAttr(slicer, "cached_cube_list")]]
    /\ UNCHANGED <<ThreadLocal, slicer>>

\* Seeded fault: a thread that misses reserves the slot with an empty list.
list_cubes_check_reserve(t) ==
    /\ threads[t].pc = "check"
    /\ IF HasAttr(slicer, "cached_cube_list")
       THEN /\ threads' = [threads EXCEPT ![t].pc = "cached"]
            /\ slicer' = slicer
       ELSE /\ threads' = [threads EXCEPT ![t].pc = "compute"]
            /\ slicer' = SetAttr(slicer, "cached_cube_list", <<>>)
    /\ UNCHANGED ThreadLocal

\* Seeded fault: the slot is never consulted.
list_cubes_check_skipped(t) ==
    /\ threads[t].pc = "check"
    /\ threads' = [threads EXCEPT ![t].pc = "compute"]
    /\ UNCHANGED <<ThreadLocal, slicer>>

\* if "cached_cube_list" in current_app.slicer:
list_cubes_check(t) ==
    /\ threads[t].pc = "check"
    /\ threads' = [threads EXCEPT ![t].pc =
                      IF HasAttr(slicer, "cached_cube_list") THEN "cached" ELSE "compute"]
    /\ UNCHANGED <<ThreadLocal, slicer>>

\* cube_list = current_app.slicer.cached_cube_list
list_cubes_cached(t) ==
    /\ threads[t].pc = "cached"
    /\ threads' = [threads EXCEPT ![t].pc = "return",
                                  ![t].cube_list = Some(slicer["cached_cube_list"])]
    /\ UNCHANGED <<ThreadLocal, slicer>>

\* cube_list = workspace.list_cubes()
list_cubes_compute(t) ==
    /\ threads[t].pc = "compute"
    /\ threads' = [threads EXCEPT ![t].pc = "store",
                                  ![t].cube_list = Some(workspace.cubes),
                                  ![t].listed = @ + 1]
    /\ UNCHANGED <<ThreadLocal, slicer>>

\* current_app.slicer.cached_cube_list = cube_list
list_cubes_store(t) ==
    /\ threads[t].pc = "store"
    /\ slicer' = SetAttr(slicer, "cached_cube_list", threads[t].cube_list[1])
    /\ threads' = [threads EXCEPT ![t].pc = "return"]
    /\ UNCHANGED ThreadLocal

\* return jsonify(cube_list)
list_cubes_return(t) ==
    /\ threads[t].pc = "return"
    /\ threads' = [threads EXCEPT ![t].pc = "done",
                                  ![t].response = Some(jsonify(SeqObj(threads[t].cube_list[1])))]
    /\ UNCHANGED <<ThreadLocal, slicer>>

\* The response of thread t is sent and its request is over.
cubes_sent(t) ==
    /\ threads[t].pc = "done"
    /\ threads' = [threads EXCEPT ![t] = IdleThread]
    /\ UNCHANGED <<ThreadLocal, slicer>>

\* The workspace's set of cubes changes (a model is added or removed).
change_cubes ==
    /\ \E l \in CubeLists \ {workspace.cubes} : workspace' = [workspace EXCEPT !.cubes = l]
    /\ UNCHANGED <<pc, config, slicer, request, engine, g, steps, calls, response, threads>>

(***************************************************************************)
(* The specification.                                                      *)
(***************************************************************************)
Init ==
    /\ pc = "boot"
    /\ config \in Configs
    /\ workspace \in Workspaces
    /\ slicer = NoAttrs
    /\ request = NoRequest
    /\ engine = DefaultEngine
    /\ g = NoAttrs
    /\ steps = <<>>
    /\ calls = <<>>
    /\ response = None
    /\ threads = [t \in Threads |-> IdleThread]

Next ==
    \/ initialize_slicer
    \/ receive_request
    \/ resolve_cube
    \/ resolve_browser
    \/ resolve_cell
    \/ resolve_paging
    \/ resolve_order
    \/ before_request
    \/ prepare_authorization
    \/ show_index
    \/ show_version
    \/ show_info
    \/ list_cubes
    \/ cube_model
    \/ aggregate
    \/ send_response

Spec == Init /\ [][Next]_vars

\* The store as initialize_slicer leaves it for the configuration cfg.
Configure(cfg) ==
    LET s1 == configure_option(NoAttrs, cfg, "prettyprint", FALSE, {})
        s2 == configure_option(s1.store, cfg, "json_record_limit", DefaultJsonRecordLimit, {})
    IN configure_option(s2.store, cfg, "authorization_method", "http_basic", {"http_basic"})

\* The process after a successful start, its worker threads idle.
InitCubes ==
    /\ pc = "idle"
    /\ config \in {cfg \in Configs : Configure(cfg).ok}
    /\ workspace \in Workspaces
    /\ slicer = Configure(config).store
    /\ request = NoRequest
    /\ engine = DefaultEngine
    /\ g = [json_record_limit |-> slicer["json_record_limit"], prettyprint |-> slicer["prettyprint"]]
    /\ steps = <<>>
    /\ calls = <<>>
    /\ response = None
    /\ threads = [t \in Threads |-> IdleThread]

NextCubes ==
    \E t \in Threads :
        \/ cubes_request(t)
        \/ list_cubes_check(t)
        \/ list_cubes_cached(t)
        \/ list_cubes_compute(t)
        \/ list_cubes_store(t)
        \/ list_cubes_return(t)
        \/ cubes_sent(t)

\* Concurrent /cubes requests over a workspace whose cubes do not change.
SpecCubes == InitCubes /\ [][NextCubes]_vars

NextReload ==
    \/ NextCubes
    \/ change_cubes

\* Concurrent /cubes requests over a workspace whose cubes change.
SpecReload == InitCubes /\ [][NextReload]_vars

Methods == {"http_basic", "digest"}

\* A running process whose store names an authorization method, whichever
\* way it was set.
InitAuth ==
    /\ pc = "idle"
    /\ config = NoAttrs
    /\ workspace \in Workspaces
    /\ \E m \in Methods :
          slicer = [prettyprint |-> FALSE, json_record_limit |-> DefaultJsonRecordLimit,
                    authorization_method |-> m]
    /\ request = NoRequest
    /\ engine = DefaultEngine
    /\ g = NoAttrs
    /\ steps = <<>>
    /\ calls = <<>>
    /\ response = None
    /\ threads = [t \in Threads |-> IdleThread]

NextAuth ==
    \/ receive_request
    \/ resolve_cube
    \/ resolve_browser
    \/ resolve_cell
    \/ resolve_paging
    \/ resolve_order
    \/ before_request
    \/ prepare_authorization
    \/ show_index
    \/ show_version
    \/ show_info
    \/ list_cubes
    \/ cube_model
    \/ aggregate
    \/ send_response

SpecAuth == InitAuth /\ [][NextAuth]_vars

(***************************************************************************)
(* Vocabulary of the properties.                                           *)
(***************************************************************************)
Ran(step) == \E i \in 1..Len(steps) : steps[i] = step

Called(op) == \E i \in 1..Len(calls) : calls[i].op = op

Failed == response # None /\ response[1].kind = "error"

FailedAt(step) == Failed /\ response[1].at = step

PrepSteps == {"cube", "browser", "cell", "paging", "order", "options", "authorization"}

SlotsOf(step) ==
    CASE step = "cube" -> {"cube"}
      [] step = "browser" -> {"browser"}
      [] step = "cell" -> {"cell"}
      [] step = "paging" -> {"page", "page_size"}
      [] step = "order" -> {"order"}
      [] step = "options" -> {"json_record_limit", "prettyprint"}
      [] step = "authorization" -> {"authorization_token"}

\* The pieces of text between the delimiters, found by the delimiters' positions.
Pieces(text, sep) ==
    LET at == {i \in 1..Len(text) : text[i] = sep}
        edges == at \cup {0, Len(text) + 1}
        Edge(k) == CHOOSE e \in edges : Cardinality({d \in edges : d < e}) = k - 1
    IN [k \in 1..(Cardinality(at) + 1) |-> SubSeq(text, Edge(k) + 1, Edge(k + 1) - 1)]

RECURSIVE FlatPieces(_, _)
FlatPieces(occurrences, sep) ==
    IF occurrences = <<>> THEN <<>>
    ELSE Pieces(Head(occurrences), sep) \o FlatPieces(Tail(occurrences), sep)

RECURSIVE ParsedCuts(_)
ParsedCuts(occurrences) ==
    IF occurrences = <<>> THEN <<>>
    ELSE cuts_from_string(Head(occurrences)).cuts \o ParsedCuts(Tail(occurrences))

TargetArg(target) == IF target = "cell" THEN "cut" ELSE "split"

\* C1: once a preparation step has raised, the request is at its error
\* response: nothing later in the chain has run, no slot of a step that did
\* not run is written, and neither the route handler nor the external
\* browser's aggregate operation was invoked.
C1_FailFast ==
    \A s \in PrepSteps :
        FailedAt(s) =>
            /\ pc = "done"
            /\ steps # <<>> /\ steps[Len(steps)] = s
            /\ \A t \in PrepSteps : ~Ran(t) => SlotsOf(t) \cap DOMAIN g = {}
            /\ ~Ran("handler")
            /\ ~Called("browser.aggregate") /\ ~Called("cube.to_dict")

C1_Witness ==
    /\ pc = "done" /\ FailedAt("paging")
    /\ steps = <<"cube", "browser", "cell", "paging">>

\* C2: on a cube-bound route, when the workspace's authorizer denies the pair
\* (authorization token, cube), neither cube.to_dict nor browser.aggregate is
\* called and a request that reached its handler ends in NotAuthorizedError.
C2_DeniedNeverServed ==
    ( /\ request.route \in CubeRoutes
      /\ workspace.authorizer # None
      /\ HasAttr(g, "cube") /\ HasAttr(g, "authorization_token")
      /\ <<g["authorization_token"], g["cube"][1]>> \in workspace.authorizer[1] )
    => /\ ~Called("cube.to_dict") /\ ~Called("browser.aggregate")
       /\ (pc = "done" /\ Ran("handler")) => (Failed /\ response[1].error = "NotAuthorizedError")

\* C3 as claimed: a request that reaches its handler has run the steps in the
\* order cube, browser, cell, paging, ordering, authorization, option projection.
C3_ClaimedOrder ==
    (pc = "handler" \/ Ran("handler")) =>
        SubSeq(steps, 1, 7) = <<"cube", "browser", "cell", "paging", "order", "authorization", "options">>

\* C3 amended: a request that reaches its handler has run each step exactly
\* once in the order cube, browser, cell, paging, ordering, option projection,
\* authorization; json_record_limit and prettyprint are in the context
\* whenever the authorization token slot is.
C3_ChainOrder ==
    /\ (pc = "handler" \/ Ran("handler")) =>
          SubSeq(steps, 1, 7) = <<"cube", "browser", "cell", "paging", "order", "options", "authorization">>
    /\ \A s \in PrepSteps : Cardinality({i \in 1..Len(steps) : steps[i] = s}) <= 1
    /\ HasAttr(g, "authorization_token") =>
          HasAttr(g, "json_record_limit") /\ HasAttr(g, "prettyprint")

C3_Witness ==
    /\ pc = "handler"
    /\ steps = <<"cube", "browser", "cell", "paging", "order", "options", "authorization">>
    /\ HasAttr(g, "authorization_token")

\* C4 as claimed: with at least one occurrence of the parameter the target
\* slot holds a Cell of the current cube with the parsed cuts in order, with
\* none it holds None.
C4_OccurrenceGivesCell ==
    \A target \in {"cell", "split"} :
        HasAttr(g, target) =>
            IF request.args[TargetArg(target)] # <<>>
            THEN g[target] = Some(Cell(g["cube"], ParsedCuts(request.args[TargetArg(target)])))
            ELSE g[target] = None

\* C4 amended: when the cuts parsed from the occurrences, concatenated in
\* occurrence order, are not empty, the target slot holds a Cell of the
\* current cube with exactly these cuts; when they are empty (no occurrence,
\* or only occurrences that parse to no cut) it holds None, never an empty Cell.
C4_CutsGiveCell ==
    \A target \in {"cell", "split"} :
        HasAttr(g, target) =>
            LET cuts == ParsedCuts(request.args[TargetArg(target)])
            IN IF cuts # <<>>
               THEN g[target] = Some(Cell(g["cube"], cuts))
               ELSE g[target] = None

C4_Witness ==
    /\ HasAttr(g, "cell")
    /\ Len(request.args["cut"]) = 2
    /\ g["cell"] # None /\ Len(g["cell"][1].cuts) = 2

\* C5: the aggregates and the drilldown passed to the external browser are
\* the "|"-separated pieces of the occurrences of their parameter, in
\* occurrence order; with no occurrence the list is empty.
C5_FlattenedLists ==
    \A i \in 1..Len(calls) :
        calls[i].op = "browser.aggregate" =>
            /\ calls[i].arg.aggregates = FlatPieces(request.args["aggregates"], "|")
            /\ calls[i].arg.drilldown = FlatPieces(request.args["drilldown"], "|")
            /\ request.args["aggregates"] = <<>> => calls[i].arg.aggregates = <<>>
            /\ request.args["drilldown"] = <<>> => calls[i].arg.drilldown = <<>>

C5_Witness ==
    /\ Called("browser.aggregate")
    /\ request.args["aggregates"] = <<<<"a", "|", "b">>>>
    /\ calls[Len(calls)].arg.aggregates = <<<<"a">>, <<"b">>>>

\* What the claim gives for one order token.
ExpectedOrderEntry(token) ==
    LET parts == Pieces(token, ":")
    IN IF \A i \in 1..Len(token) : token[i] # ":"
       THEN <<token, None>>
       ELSE <<parts[1], Some(parts[2])>>

\* C6: after the ordering step the order list has one entry per
\* comma-separated token, in order: (token, None) without a colon, otherwise
\* (first component, second component), further components dropped.
C6_OrderEntries ==
    HasAttr(g, "order") =>
        LET tokens == FlatPieces(request.args["order"], ",")
        IN /\ Len(g["order"]) = Len(tokens)
           /\ \A k \in 1..Len(tokens) : g["order"][k] = ExpectedOrderEntry(tokens[k])
           /\ ~FailedAt("order")

C6_Witness ==
    /\ HasAttr(g, "order")
    /\ request.args["order"] = <<<<":", ":", "x">>>>
    /\ g["order"] = <<<< <<>>, Some(<<>>) >>>>

IntLiteral(text) == PyInt(text).ok

\* C7: the paging step fails naming 'page' when page is present and no
\* integer literal, otherwise naming 'pagesize' when pagesize is present and
\* no integer literal; otherwise each slot is None when its parameter is
\* absent and the parameter's integer value when it is present.
C7_Paging ==
    Ran("paging") =>
        LET page == request.args["page"]
            size == request.args["pagesize"]
        IN IF page # <<>> /\ ~IntLiteral(page[1])
           THEN FailedAt("paging") /\ response[1].error = "RequestError"
                /\ response[1].names = "page"
           ELSE IF size # <<>> /\ ~IntLiteral(size[1])
           THEN FailedAt("paging") /\ response[1].error = "RequestError"
                /\ response[1].names = "pagesize"
           ELSE /\ ~FailedAt("paging")
                /\ HasAttr(g, "page") /\ HasAttr(g, "page_size")
                /\ g["page"] = IF page = <<>> THEN None ELSE Some(PyInt(page[1]).value)
                /\ g["page_size"] = IF size = <<>> THEN None ELSE Some(PyInt(size[1]).value)

C7_Witness ==
    /\ request.args["page"] = <<<<"3">>>> /\ request.args["pagesize"] = <<<<"1", "0">>>>
    /\ HasAttr(g, "page") /\ g["page"] = Some(3)
    /\ HasAttr(g, "page_size") /\ g["page_size"] = Some(10)

BadEnum(name, values) == request.args[name] # <<>> /\ request.args[name][1] \notin values

\* The header the labels policy gives for the columns of a result.
ExpectedLabelsHeader(labels) ==
    [i \in 1..Len(labels) |->
        IF labels[i] = SPLIT_DIMENSION_NAME THEN "Matches Filters"
        ELSE IF CubeAttributes[labels[i]] = None \/ CubeAttributes[labels[i]] = Some("")
        THEN labels[i]
        ELSE CubeAttributes[labels[i]][1]]

\* C8: an aggregate request whose format is outside {json, csv} or whose
\* header is outside {names, labels, none} fails with RequestError and the
\* external browser's aggregate operation is never called for it; an omitted
\* format renders JSON and an omitted header renders the labels header.
C8_ValidatedEnums ==
    LET bad == \/ BadEnum("format", {<<"json">>, <<"csv">>})
               \/ BadEnum("header", {<<"names">>, <<"labels">>, <<"none">>})
    IN request.route = "aggregate" =>
        /\ bad => ~Called("browser.aggregate")
        /\ (bad /\ Ran("handler")) => (Failed /\ response[1].error = "RequestError")
        /\ (request.args["format"] = <<>> /\ Ran("handler") /\ ~Failed) => response[1].kind = "json"
        /\ (request.args["header"] = <<>> /\ Ran("handler") /\ ~Failed /\ response[1].kind = "csv")
              => response[1].header = Some(ExpectedLabelsHeader(engine.result.labels))

C8_Witness ==
    /\ pc = "done" /\ request.route = "aggregate"
    /\ request.args["format"] = <<>> /\ request.args["header"] = <<<<"bogus">>>>
    /\ Ran("handler") /\ FailedAt("header")

\* C9: on the CSV path the header handed to the CSV generator follows the
\* header policy (names: the result labels; none: no header; labels:
\* 'Matches Filters' for the split column, otherwise the attribute's label or,
\* without a label, its name) and the fields are the result labels.
C9_CsvHeader ==
    (response # None /\ response[1].kind = "csv") =>
        LET labels == engine.result.labels
            policy == IF request.args["header"] = <<>> THEN <<"labels">> ELSE request.args["header"][1]
            r == response[1]
        IN /\ r.fields = labels
           /\ r.data = engine.result.rows
           /\ policy = <<"names">> => (r.header = Some(labels) /\ r.include_header)
           /\ policy = <<"none">> => (r.header = None /\ ~r.include_header)
           /\ policy = <<"labels">> => (r.header = Some(ExpectedLabelsHeader(labels)) /\ r.include_header)
           /\ policy \in {<<"names">>, <<"none">>, <<"labels">>}

C9_Witness ==
    /\ response # None /\ response[1].kind = "csv"
    /\ request.args["header"] = <<<<"labels">>>>
    /\ engine.result.labels = <<SPLIT_DIMENSION_NAME, "amount">>
    /\ response[1].header = Some(<<"Matches Filters", "Amount">>)

\* C10: a JSON response is encoded with the store's json_record_limit as the
\* element limit: a top-level sequence is written up to that many elements,
\* a longer one is truncated and still answered; prettyprint only selects
\* the indent.
C10_RecordLimit ==
    (response # None /\ response[1].kind = "json") =>
        LET r == response[1]
            limit == slicer["json_record_limit"]
        IN /\ r.limit = Some(limit)
           /\ g["json_record_limit"] = limit
           /\ r.indent = IF g["prettyprint"] THEN Some(4) ELSE None
           /\ r.obj[1].type = "seq" =>
                 /\ Len(r.data) <= limit
                 /\ Len(r.data) = Min(Len(r.obj[1].items), limit)
                 /\ \A i \in 1..Len(r.data) : r.data[i] = r.obj[1].items[i]

C10_Witness ==
    /\ response # None /\ response[1].kind = "json"
    /\ response[1].obj[1].type = "seq"
    /\ Len(response[1].obj[1].items) > slicer["json_record_limit"]
    /\ Len(response[1].data) = slicer["json_record_limit"]
    /\ g["prettyprint"]

\* The value _configure_option resolves for an option: the configured one, else the default.
Resolved(option, default) == IF option \in DOMAIN config THEN config[option] ELSE default

\* C11: configuration ends in ConfigurationError exactly when the resolved
\* authorization_method is not 'http_basic'; the rejected option is then not
\* stored and no request is ever served; otherwise the store holds exactly
\* the resolved value of every option.
C11_ConfigurationChecked ==
    pc # "boot" =>
        LET method == Resolved("authorization_method", "http_basic")
        IN /\ (pc = "ConfigurationError") <=> (method # "http_basic")
           /\ pc = "ConfigurationError" =>
                 /\ ~HasAttr(slicer, "authorization_method")
                 /\ request = NoRequest /\ steps = <<>> /\ calls = <<>> /\ response = None
           /\ pc # "ConfigurationError" => slicer["authorization_method"] = method
           /\ slicer["prettyprint"] = Resolved("prettyprint", FALSE)
           /\ slicer["json_record_limit"] = Resolved("json_record_limit", 1000)

C11_Witness ==
    /\ pc = "ConfigurationError"
    /\ HasAttr(config, "authorization_method") /\ config["authorization_method"] = "digest"
    /\ DOMAIN slicer = {"prettyprint", "json_record_limit"}

\* C12: with no authorizer on the workspace authorize_cube never rejects: no
\* request ends in NotAuthorizedError, the external authorizer is never
\* called, and a model request that reaches its handler is served.
C12_OpenAccess ==
    workspace.authorizer = None =>
        /\ ~Called("authorizer.authorize")
        /\ ~(Failed /\ response[1].error = "NotAuthorizedError")
        /\ (request.route = "model" /\ Ran("handler")) => (~Failed /\ Called("cube.to_dict"))

C12_Witness ==
    /\ workspace.authorizer = None
    /\ request.route = "model" /\ pc = "done"
    /\ Called("cube.to_dict")
    /\ g["authorization_token"] = None

StoreOptions == {"prettyprint", "json_record_limit", "authorization_method"}

AtHandler == pc = "handler" \/ Ran("handler")

AggregateCalls == {i \in 1..Len(calls) : calls[i].op = "browser.aggregate"}

\* C16: in a request that has reached its route handler, page is absent or
\* at least 0 and page_size is absent or at least 1, and so are the page and
\* page_size that the browser's aggregate operation is called with.
C16_PagingRange ==
    AtHandler =>
        /\ g["page"] = None \/ g["page"][1] >= 0
        /\ g["page_size"] = None \/ g["page_size"][1] > 0
        /\ \A i \in AggregateCalls :
              /\ calls[i].arg.page = None \/ calls[i].arg.page[1] >= 0
              /\ calls[i].arg.page_size = None \/ calls[i].arg.page_size[1] > 0

\* C17: every entry of the order list written by the ordering step has the
\* direction asc, the direction desc, or none.
C17_OrderDirections ==
    HasAttr(g, "order") =>
        \A i \in 1..Len(g["order"]) :
            g["order"][i][2] \in {None, Some(<<"asc">>), Some(<<"desc">>)}

\* C18: the context's prettyprint is the boolean reading of the request's
\* prettyprint parameter when the request carries one and the configured
\* value otherwise, whatever requests came before; the store's prettyprint
\* stays the configured value.
C18_PrettyprintOverride ==
    /\ HasAttr(slicer, "prettyprint") => slicer["prettyprint"] = Resolved("prettyprint", FALSE)
    /\ HasAttr(g, "prettyprint") =>
          g["prettyprint"] = IF request.args["prettyprint"] # <<>>
                             THEN request.args["prettyprint"][1] \in {<<"true">>, <<"yes">>, <<"1">>, <<"on">>}
                             ELSE Resolved("prettyprint", FALSE)

C18_Witness ==
    /\ HasAttr(slicer, "cached_cube_list")
    /\ HasAttr(g, "prettyprint") /\ ~g["prettyprint"]
    /\ request.args["prettyprint"] = <<<<"false">>>>
    /\ slicer["prettyprint"]

Lifecycle ==
    StepOrder \o <<"handler", "format", "header", "assemble", "split", "aggregate", "render">>

\* C19: the stages of an aggregate request run in one fixed order, each at
\* most once; the browser's aggregate operation is called at most once, after
\* the chain, the format and header validation and the split resolution, with
\* the context's cell, aggregates, drilldown, split, page, page_size and
\* order; a failed request stopped at the stage that failed; and a request
\* has a response exactly when it is finished.
C19_LinearLifecycle ==
    /\ (response # None) <=> (pc = "done")
    /\ request.route = "aggregate" =>
          /\ Len(steps) <= Len(Lifecycle) /\ steps = SubSeq(Lifecycle, 1, Len(steps))
          /\ Cardinality(AggregateCalls) <= 1
          /\ Failed => steps[Len(steps)] = response[1].at
          /\ Ran("aggregate") <=> Called("browser.aggregate")
          /\ \A i \in AggregateCalls :
                /\ pc = "done" /\ ~(\E s \in {"cube", "browser", "cell", "paging", "order",
                                              "options", "authorization", "format",
                                              "header", "split"} : FailedAt(s))
                /\ calls[i].arg = [cell |-> g["cell"],
                                   aggregates |-> FlatPieces(request.args["aggregates"], "|"),
                                   drilldown |-> FlatPieces(request.args["drilldown"], "|"),
                                   split |-> g["split"], page |-> g["page"],
                                   page_size |-> g["page_size"], order |-> g["order"]]

C19_Witness ==
    /\ request.route = "aggregate" /\ pc = "done"
    /\ Cardinality(AggregateCalls) = 1
    /\ FailedAt("aggregate")
    /\ steps = SubSeq(Lifecycle, 1, Len(Lifecycle) - 1)

Responded(t) == threads[t].response # None

\* C13: with the workspace's cubes constant, whatever the interleaving of
\* concurrent /cubes requests, the slot once written holds the workspace's
\* cube list and every response carries that list; several requests may each
\* have called workspace.list_cubes.
C13_BenignRace ==
    /\ HasAttr(slicer, "cached_cube_list") => slicer["cached_cube_list"] = workspace.cubes
    /\ \A t \in Threads :
          /\ threads[t].cube_list \in {None, Some(workspace.cubes)}
          /\ Responded(t) => threads[t].response[1].obj = Some(SeqObj(workspace.cubes))

C13_Witness ==
    \E t, u \in Threads :
        /\ t # u
        /\ threads[t].listed = 1 /\ threads[u].listed = 1
        /\ Responded(t) /\ Responded(u)

C20_NeverRefreshed ==
    [][HasAttr(slicer, "cached_cube_list") => slicer' = slicer]_vars

\* C20: a written slot is never removed; it is rewritten only by the store
\* statement of a request that began before the slot was first written; a
\* request that began after it never calls workspace.list_cubes and reads
\* the list from the slot.
C20_WrittenByEarlyRequestsOnly ==
    [][HasAttr(slicer, "cached_cube_list") =>
          /\ HasAttr(slicer', "cached_cube_list")
          /\ slicer'["cached_cube_list"] # slicer["cached_cube_list"] =>
                \E t \in Threads : /\ threads[t].pc = "store" /\ threads'[t].pc = "return"
                                   /\ ~threads[t].cached_at_start
          /\ \A t \in Threads :
                /\ threads'[t].cached_at_start =>
                      threads'[t].listed = 0 /\ threads'[t].pc \notin {"compute", "store"}
                /\ (threads[t].pc = "cached" /\ threads'[t].pc = "return") =>
                      threads'[t].cube_list = Some(slicer["cached_cube_list"])]_vars

C20_Witness ==
    /\ HasAttr(slicer, "cached_cube_list") /\ slicer["cached_cube_list"] # workspace.cubes
    /\ \E t \in Threads :
          /\ threads[t].cached_at_start /\ threads[t].listed = 0
          /\ Responded(t) /\ threads[t].response[1].obj = Some(SeqObj(slicer["cached_cube_list"]))

====
